---- MODULE Spec2Model ----
(***************************************************************************)
(* Storage & Vault engine of octopus-photos: the quota ledger              *)
(* (StorageController), the ingestion pipeline (PhotosService.upload_photo *)
(* over StorageService.save_photo_stream), the lifecycle operations        *)
(* (PhotoController.trash_photo / restore_photo, PhotosService             *)
(* .delete_photo) and the vault (VaultService).                            *)
(*                                                                         *)
(* Every service call is one action: the services are synchronous and each *)
(* request works on its own database session (get_db, db_session.py:4-12), *)
(* closed when the request ends, so changes a call left uncommitted are    *)
(* discarded with it.  A call's inputs include the faults of its           *)
(* environment that the code itself handles: a disk write that raises      *)
(* OSError, a commit that raises SQLAlchemyError, a thumbnail that cannot  *)
(* be generated, a file without metadata.  An unlink of a file that exists *)
(* is taken to succeed.                                                    *)
(*                                                                         *)
(* BaseController._validate_uudi is called by the controllers and defined  *)
(* nowhere under src/; it is taken as the conversion of a well-formed id   *)
(* to a UUID and every id of the model is well formed.  The record fields  *)
(* is_deleted, deleted_at, is_encrypted and encryption_salt are the ones   *)
(* PhotoController and VaultService read and write.                        *)
(***************************************************************************)
EXTENDS Integers, Sequences, FiniteSets, TLC

\* ---------------------------------------------------------------- bounds
MaxUuid == 4        \* uuid4() values drawn (physical names and photo ids)
MaxLen  == 2        \* largest uploaded stream, in bytes
MaxTime == 1        \* latest value of the database clock
MaxLedger == 3      \* largest magnitude of a ledger counter set by a direct call

\* ---------------------------------------------------------------- values
\* Python's None and a value that is present, as sets of at most one element
None      == {}
Some(x)   == {x}
The(opt)  == CHOOSE x \in opt : TRUE
\* no photo id (ids are the uuid values 1, 2, ...)
NoId      == 0

Users  == {"u1", "u2", "u3"}
\* users_model role column: u3 holds UserRole.ADMIN, u1 and u2 are plain users
Admins == {"u3"}
\* the users whose uploads are explored; the others only issue requests
Uploaders == {"u1"}

\* the stream of n bytes b1 b2 ... bn
Stream(n) == [i \in 1..n |-> i]
Streams   == {Stream(n) : n \in 1..MaxLen}

\* what a file holds: an uploaded image, a thumbnail or a vault blob
Plain(bytes) == [kind |-> "plain", bytes |-> bytes]

Filenames == {"a.JPG", "c.gif"}

\* a row of the users table: UsersDatabaseModel's unique columns and the role
UserRow(username, email, role) == [username |-> username, email |-> email, role |-> role]

Passwords == {"pw1", "pw2"}

\* The faults one call can meet: the disk write, the ledger commit, the
\* thumbnail, the metadata, the commit of the row, and the ledger commit of
\* the rollback.
Faults == {"write", "ledger", "thumb", "meta", "persist", "ledger_undo"}

\* The fault sets of an upload that differ in effect: a fault past the step
\* that ends the call is never met.
UploadFaults ==
    {f \in SUBSET Faults :
        /\ "write" \in f => f = {"write"}
        /\ "ledger" \in f => f = {"ledger"}
        /\ "meta" \in f => "persist" \notin f
        /\ "ledger_undo" \in f => ("meta" \in f \/ "persist" \in f)}

\* ---------------------------------------------------------------- state
VARIABLES
    storage,    \* user_storages table: user -> None or the ledger row
    photos,     \* photos table: id -> the record (only ids that have a row)
    disk,       \* the files on disk: path -> content (only paths that exist)
    dirs,       \* the user directories that exist, <<user, subfolder>>
    uuid,       \* number of uuid4() values drawn so far
    now,        \* the database clock, func.now()
    purged,     \* ids whose purge has succeeded
    locked_with,\* id -> None, or the passphrase, plaintext and thumbnail of the owner's last lock
    call,       \* the last call and what it returned
    tasks,      \* the calls in flight at the same time, each at its next step
    users       \* users table: id -> None or the row

vars == <<storage, photos, disk, dirs, uuid, now, purged, locked_with, call, tasks,
          users>>

\* The part of the state the services act on, passed through their operators.
World == [storage |-> storage, photos |-> photos, disk |-> disk,
          dirs |-> dirs, uuid |-> uuid]

\* ------------------------------------------------------------ filesystem
\* pathlib.Path(...).suffix.lower()
Suffix(filename) ==
    CASE filename = "a.JPG" -> ".jpg"
      [] filename = "c.gif" -> ".gif"
      [] OTHER -> ""

\* StorageService.get_user_path / get_user_thubnail_path
get_user_path(user_id, subfolder) == <<user_id, subfolder>>

File(dir, name) == <<dir[1], dir[2], name>>

exists(w, path) == path \in DOMAIN w.disk \/ path \in w.dirs

\* open(path, "wb") ... write
write_file(w, path, content) ==
    [w EXCEPT !.disk = [p \in DOMAIN w.disk \cup {path} |->
                          IF p = path THEN content ELSE w.disk[p]]]

\* Path.unlink of a regular file
unlink(w, path) ==
    [w EXCEPT !.disk = [p \in DOMAIN w.disk \ {path} |-> w.disk[p]]]

\* os.urandom(12) and the AES-GCM tag appended by AESGCM.encrypt
NonceLen == 12
TagLen   == 16

\* Path.stat().st_size
st_size(content) ==
    CASE content.kind = "plain" -> Len(content.bytes)
      [] content.kind = "thumb" -> Len(content.bytes)
      [] content.kind = "blob"  -> NonceLen + Len(content.ct.pt) + TagLen

\* ---------------------------------------------------------- quota ledger
update_usage_wrong_delta(w, user_id, size_delta, files_delta, commit_ok) ==
    IF w.storage[user_id] = None \/ ~commit_ok
    THEN [w |-> w, ok |-> FALSE]
    ELSE LET storage_db == The(w.storage[user_id])
         IN  [w |-> [w EXCEPT !.storage[user_id] =
                       Some([count_files |-> storage_db.count_files + files_delta,
                             storage_bytes_size |->
                                 storage_db.storage_bytes_size + size_delta + 1])],
              ok |-> TRUE]

\* StorageController.update_usage: False when the row is missing or the
\* commit fails (rolled back), else both counters moved by the deltas.
update_usage(w, user_id, size_delta, files_delta, commit_ok) ==
    IF w.storage[user_id] = None \/ ~commit_ok
    THEN [w |-> w, ok |-> FALSE]
    ELSE LET storage_db == The(w.storage[user_id])
         IN  [w |-> [w EXCEPT !.storage[user_id] =
                       Some([count_files |-> storage_db.count_files + files_delta,
                             storage_bytes_size |->
                                 storage_db.storage_bytes_size + size_delta])],
              ok |-> TRUE]

register_file_upload(w, user_id, file_size_bytes, commit_ok) ==
    update_usage(w, user_id, file_size_bytes, 1, commit_ok)

register_file_deletion(w, user_id, file_size_bytes, commit_ok) ==
    update_usage(w, user_id, -file_size_bytes, -1, commit_ok)

Subfolders == {"photos", "thumbnails", "vault", "vault/photos", "vault/thumbnails"}

\* StorageService.init_user_storage with StorageController.create_initial_storage
init_user_storage(w, user_id, commit_ok) ==
    IF w.storage[user_id] # None
    THEN [w |-> w, res |-> "existing"]
    ELSE LET w1 == [w EXCEPT !.dirs = @ \cup {get_user_path(user_id, s) : s \in Subfolders}]
         IN  IF commit_ok
             THEN [w |-> [w1 EXCEPT !.storage[user_id] =
                            Some([count_files |-> 0, storage_bytes_size |-> 0])],
                   res |-> "created"]
             ELSE [w |-> w1, res |-> "None"]

\* StorageService.delete_photo_file
delete_photo_file(w, user_id, file_path, commit_ok) ==
    IF ~exists(w, file_path)
    THEN [w |-> w, res |-> "ResourceNotFoundError"]
    ELSE IF file_path \in w.dirs
    THEN \* unlink of a directory raises OSError
         [w |-> w, res |-> "StorageError"]
    ELSE LET file_size == st_size(w.disk[file_path])
             w1 == unlink(w, file_path)
             upd == register_file_deletion(w1, user_id, file_size, commit_ok)
         IN  \* a failed ledger update is logged and the call still returns True
             [w |-> upd.w, res |-> "True"]

\* the suffixes of FormatImage, lowered
ValidExts == {".jpg", ".jpeg", ".png", ".webp", ".gif"}

\* the regular files of the user's photos directory that the scan keeps
ScannedFiles(w, user_id) ==
    {p \in DOMAIN w.disk :
        /\ p[1] = user_id /\ p[2] = "photos"
        /\ p[3][2] \in ValidExts}

RECURSIVE SumFileSizes(_, _)
SumFileSizes(w, paths) ==
    IF paths = {} THEN 0
    ELSE LET p == CHOOSE x \in paths : TRUE
         IN  st_size(w.disk[p]) + SumFileSizes(w, paths \ {p})

\* StorageService.sync_db_stats_with_disk: False without the photos
\* directory; else the scanned totals are handed to update_usage as deltas
sync_db_stats_with_disk(w, user_id, commit_ok) ==
    IF get_user_path(user_id, "photos") \notin w.dirs
    THEN [w |-> w, ok |-> FALSE]
    ELSE LET files == ScannedFiles(w, user_id)
             total_size == SumFileSizes(w, files)
             total_count == Cardinality(files)
         IN  update_usage(w, user_id, total_size, total_count, commit_ok)

\* ------------------------------------------------------------- ingestion
\* uuid.uuid4(): a value never drawn before
uuid4(w) == w.uuid + 1

\* StorageService.prepare_new_photo_path: creates the photos directory when
\* it is missing and names the file by a fresh uuid and the lowered suffix.
prepare_new_photo_path(w, user_id, original_filename) ==
    LET user_photos_dir == get_user_path(user_id, "photos")
    IN  [w |-> [w EXCEPT !.dirs = @ \cup {user_photos_dir}, !.uuid = uuid4(w)],
         path |-> File(user_photos_dir, <<uuid4(w), Suffix(original_filename)>>)]

\* what a write that raised OSError midway leaves in the file
Partial(bytes) == Plain(SubSeq(bytes, 1, Len(bytes) - 1))

save_photo_stream_keeps_file(w, user_id, file_stream, original_filename, faults) ==
    LET prep == prepare_new_photo_path(w, user_id, original_filename)
        target_path == prep.path
    IN  IF "write" \in faults
        THEN [w |-> write_file(prep.w, target_path, Partial(file_stream)),
              res |-> "StorageError", path |-> target_path]
        ELSE LET w1 == write_file(prep.w, target_path, Plain(file_stream))
                 upd == register_file_upload(w1, user_id, st_size(w1.disk[target_path]),
                                             "ledger" \notin faults)
             IN  IF ~upd.ok
                 THEN [w |-> upd.w, res |-> "StorageError", path |-> target_path]
                 ELSE [w |-> upd.w, res |-> "ok", path |-> target_path]

\* StorageService.save_photo_stream: the file is written, then the ledger is
\* moved by +size, +1; when either fails the file is unlinked and
\* StorageError raised.
save_photo_stream(w, user_id, file_stream, original_filename, faults) ==
    LET prep == prepare_new_photo_path(w, user_id, original_filename)
        target_path == prep.path
    IN  IF "write" \in faults
        THEN \* except Exception: the partial file exists and is unlinked
             LET w1 == write_file(prep.w, target_path, Partial(file_stream))
             IN  [w |-> IF exists(w1, target_path) THEN unlink(w1, target_path) ELSE w1,
                  res |-> "StorageError", path |-> target_path]
        ELSE LET w1 == write_file(prep.w, target_path, Plain(file_stream))
                 upd == register_file_upload(w1, user_id, st_size(w1.disk[target_path]),
                                             "ledger" \notin faults)
             IN  IF ~upd.ok
                 THEN [w |-> unlink(upd.w, target_path),
                       res |-> "StorageError", path |-> target_path]
                 ELSE [w |-> upd.w, res |-> "ok", path |-> target_path]

\* PIL thumbnail() and save(..., "JPEG"): a reduced re-encoding of the image
Thumbnail(content) == [kind |-> "thumb", bytes |-> <<0>> \o content.bytes]

\* PhotosService._generate_thumbnail: thumbnails/<physical name>; a failure is
\* logged and returns False
_generate_thumbnail(w, original_path, user_id, ok) ==
    LET thumb_dir == get_user_path(user_id, "thumbnails")
        thumb_path == File(thumb_dir, original_path[3])
    IN  IF ok /\ thumb_dir \in w.dirs /\ original_path \in DOMAIN w.disk
        THEN write_file(w, thumb_path, Thumbnail(w.disk[original_path]))
        ELSE w

\* PhotoController.create_photo: the row gets a fresh id (default=uuid.uuid4)
create_photo(w, user_id, file_name, storage_path, commit_ok) ==
    IF ~commit_ok
    THEN [w |-> w, id |-> NoId]
    ELSE LET id == uuid4(w)
             row == [user_id |-> user_id, storage_path |-> storage_path,
                     file_name |-> file_name,
                     is_deleted |-> FALSE, deleted_at |-> None,
                     is_encrypted |-> FALSE, encryption_salt |-> None]
         IN  [w |-> [w EXCEPT !.uuid = id,
                              !.photos = [i \in DOMAIN w.photos \cup {id} |->
                                            IF i = id THEN row ELSE w.photos[i]]],
              id |-> id]

AllowedSuffixesWithGif == {".jpg", ".jpeg", ".png", ".webp", ".gif"}

\* PhotosService.upload_photo, line 121: the suffixes accepted
AllowedSuffixes == {".jpg", ".jpeg", ".png", ".webp"}

\* the except branch of upload_photo: the physical rollback
upload_rollback(w, user_id, target_path, commit_ok) ==
    IF exists(w, target_path)
    THEN delete_photo_file(w, user_id, target_path, commit_ok)
    ELSE [w |-> w, res |-> "True"]

\* PhotosService.upload_photo
upload_photo(w, user_id, file_stream, filename, faults) ==
    IF Suffix(filename) \notin AllowedSuffixes
    THEN [w |-> w, res |-> "ValidationError", id |-> NoId]
    ELSE
    LET saved == save_photo_stream(w, user_id, file_stream, filename, faults)
    IN  IF saved.res # "ok"
        THEN \* target_path still is the photos directory (line 117)
             LET undo == upload_rollback(saved.w, user_id, get_user_path(user_id, "photos"),
                                         "ledger_undo" \notin faults)
             IN  [w |-> undo.w,
                  res |-> IF undo.res = "True" THEN "OctopusError" ELSE undo.res,
                  id |-> NoId]
        ELSE
        LET target_path == saved.path
            w1 == _generate_thumbnail(saved.w, target_path, user_id, "thumb" \notin faults)
            \* extract_metadata returned None: metadata.model_dump() raises
            created == IF "meta" \in faults
                       THEN [w |-> w1, id |-> NoId]
                       ELSE create_photo(w1, user_id, filename, target_path,
                                         "persist" \notin faults)
        IN  IF created.id = NoId
            THEN LET undo == upload_rollback(created.w, user_id, target_path,
                                             "ledger_undo" \notin faults)
                 IN  [w |-> undo.w,
                      res |-> IF undo.res = "True" THEN "OctopusError" ELSE undo.res,
                      id |-> NoId]
            ELSE [w |-> created.w, res |-> "ok", id |-> created.id]

\* ------------------------------------------------------------- lifecycle
\* PhotoController.get_by_id / BaseController._get_item_by_id
get_by_id(w, photo_id) ==
    IF photo_id \in DOMAIN w.photos THEN Some(w.photos[photo_id]) ELSE None

\* UserService._is_user_admin
_is_user_admin(user_id) == user_id \in Admins

trash_photo_frees_quota(w, photo_id, clock, commit_ok) ==
    IF get_by_id(w, photo_id) = None
    THEN [w |-> w, res |-> "False"]
    ELSE IF ~commit_ok
    THEN [w |-> w, res |-> "False"]
    ELSE LET upd == update_usage(w, w.photos[photo_id].user_id, 0, -1, TRUE)
         IN  [w |-> [upd.w EXCEPT !.photos[photo_id].is_deleted = TRUE,
                                  !.photos[photo_id].deleted_at = Some(clock)],
              res |-> "True"]

\* PhotoController.trash_photo: only the soft-delete flag and its timestamp
trash_photo(w, photo_id, clock, commit_ok) ==
    IF get_by_id(w, photo_id) = None
    THEN [w |-> w, res |-> "False"]
    ELSE IF ~commit_ok
    THEN [w |-> w, res |-> "False"]
    ELSE [w |-> [w EXCEPT !.photos[photo_id].is_deleted = TRUE,
                          !.photos[photo_id].deleted_at = Some(clock)],
          res |-> "True"]

\* PhotoController.restore_photo
restore_photo(w, photo_id, commit_ok) ==
    IF get_by_id(w, photo_id) = None
    THEN [w |-> w, res |-> "False"]
    ELSE IF ~commit_ok
    THEN [w |-> w, res |-> "False"]
    ELSE [w |-> [w EXCEPT !.photos[photo_id].is_deleted = FALSE,
                          !.photos[photo_id].deleted_at = None],
          res |-> "True"]

\* PhotoController.delete_photo: the row is deleted, or the commit rolled back
delete_photo_row(w, photo_id, commit_ok) ==
    IF get_by_id(w, photo_id) = None \/ ~commit_ok
    THEN [w |-> w, ok |-> FALSE]
    ELSE [w |-> [w EXCEPT !.photos = [i \in DOMAIN w.photos \ {photo_id} |-> w.photos[i]]],
          ok |-> TRUE]

photo_not_found_returns(w) == [w |-> w, res |-> "False"]

\* PhotosService.delete_photo, lines 291-293: an id without a row
photo_not_found(w) == [w |-> w, res |-> "ResourceNotFoundError"]

\* PhotosService.delete_photo
delete_photo(w, photo_id, requester_id, faults) ==
    LET found == get_by_id(w, photo_id)
        photo == The(found)
    IN  IF found = None
        THEN photo_not_found(w)
        ELSE IF photo.user_id # requester_id /\ ~_is_user_admin(requester_id)
        THEN [w |-> w, res |-> "PermissionDeniedError"]
        ELSE
        LET original_path == photo.storage_path
            del == delete_photo_file(w, photo.user_id, original_path, "ledger" \notin faults)
        IN  IF del.res # "True"
            THEN [w |-> del.w, res |-> del.res]
            ELSE
            LET thumb_path == File(get_user_path(photo.user_id, "thumbnails"), original_path[3])
                w1 == IF exists(del.w, thumb_path) THEN unlink(del.w, thumb_path) ELSE del.w
                success == delete_photo_row(w1, photo_id, "persist" \notin faults)
            IN  [w |-> success.w, res |-> IF success.ok THEN "True" ELSE "False"]

\* ----------------------------------------------------------------- vault
\* byte strings and their hexadecimal text are different values
Bytes(x) == <<"bytes", x>>
Hex(x)   == <<"hex", x>>

\* bytes.fromhex: a str of hex digits gives the bytes, anything else raises
fromhex(x) == IF x # None /\ The(x)[1] = "hex" THEN Some(Bytes(The(x)[2])) ELSE None

\* VaultService._derive_key: PBKDF2-HMAC-SHA256 of the passphrase and salt
_derive_key(password, salt) == <<password, salt>>

\* AESGCM(key).encrypt(nonce, data, None): ciphertext with its tag
aesgcm_encrypt(key, nonce, data) == [key |-> key, nonce |-> nonce, pt |-> data]

\* VaultService._encrypt_data: (salt, nonce || ciphertext) from two urandom draws
_encrypt_data(data, password, salt, nonce) ==
    [salt |-> Bytes(salt),
     blob |-> [kind |-> "blob", nonce |-> nonce,
               ct |-> aesgcm_encrypt(_derive_key(password, Bytes(salt)), nonce, data)]]

\* VaultService._decrypt_data: the first 12 bytes are the nonce; a key or
\* nonce the tag does not verify under raises PermissionDeniedError
_decrypt_data(encrypted_blob, password, salt) ==
    LET key == _derive_key(password, salt)
    IN  IF encrypted_blob.kind = "blob"
           /\ encrypted_blob.ct.key = key
           /\ encrypted_blob.ct.nonce = encrypted_blob.nonce
        THEN [res |-> "ok", data |-> encrypted_blob.ct.pt]
        ELSE [res |-> "PermissionDeniedError", data |-> <<>>]

mark_as_encrypted_flushes_then_raises(w, photo_id, new_storage_path, salt) ==
    IF photo_id \notin DOMAIN w.photos
    THEN [w |-> w, raised |-> FALSE]
    ELSE [w |-> [w EXCEPT !.photos[photo_id].is_encrypted = TRUE,
                          !.photos[photo_id].storage_path = new_storage_path,
                          !.photos[photo_id].encryption_salt = Some(salt)],
          raised |-> TRUE]

mark_as_encrypted_update_ignored(w, photo_id, new_storage_path, salt) ==
    [w |-> w, raised |-> FALSE]

\* PhotoController.mark_as_encrypted: the attributes are set on the session's
\* object and _update_or_rollback() is then called without its record
\* argument, which raises TypeError before anything is added or committed;
\* an id without a row returns None
mark_as_encrypted(w, photo_id, new_storage_path, salt) ==
    IF get_by_id(w, photo_id) = None
    THEN [w |-> w, raised |-> FALSE]
    ELSE [w |-> w, raised |-> TRUE]

\* VaultService.lock_photo
lock_photo(w, photo_id, user_id, vault_password, rnd, faults) ==
    LET found == get_by_id(w, photo_id)
        photo_db == The(found)
    IN  IF found = None \/ photo_db.user_id # user_id
        THEN [w |-> w, res |-> "PermissionDeniedError"]
        ELSE
        LET original_path == photo_db.storage_path
            thumb_path == File(get_user_path(user_id, "thumbnails"), original_path[3])
            vault_photos == get_user_path(user_id, "vault/photos")
            vault_thumbs == get_user_path(user_id, "vault/thumbnails")
            vault_photo_path == File(vault_photos, <<photo_id, ".vault">>)
            vault_thumb_path == File(vault_thumbs, <<photo_id, ".tmb.vault">>)
        IN  IF original_path \notin DOMAIN w.disk
               \/ vault_photos \notin w.dirs \/ "write" \in faults
            THEN [w |-> w, res |-> "StorageError"]
            ELSE
            LET enc_o == _encrypt_data(w.disk[original_path].bytes, vault_password,
                                       rnd.salt_o, rnd.nonce_o)
                w1 == write_file(w, vault_photo_path, enc_o.blob)
                has_thumb == exists(w1, thumb_path)
            IN  IF has_thumb /\ (vault_thumbs \notin w.dirs \/ "thumb" \in faults)
                THEN \* the blob of the original is written, the thumbnail's is not
                     [w |-> w1, res |-> "StorageError"]
                ELSE
                LET \* the thumbnail's own salt is dropped
                    enc_t == _encrypt_data(w1.disk[thumb_path].bytes, vault_password,
                                           rnd.salt_t, rnd.nonce_t)
                    w2 == IF has_thumb THEN write_file(w1, vault_thumb_path, enc_t.blob)
                          ELSE w1
                    marked == mark_as_encrypted(w2, photo_id, vault_photo_path, enc_o.salt)
                IN  IF marked.raised
                    THEN [w |-> marked.w, res |-> "StorageError"]
                    ELSE IF original_path \notin DOMAIN marked.w.disk
                    THEN [w |-> marked.w, res |-> "StorageError"]
                    ELSE LET w3 == unlink(marked.w, original_path)
                         IN  [w |-> IF exists(w3, thumb_path) THEN unlink(w3, thumb_path)
                                    ELSE w3,
                              res |-> "True"]

\* VaultService.get_decrypted_stream
get_decrypted_stream(w, photo_id, user_id, vault_password, is_thumbnail) ==
    LET found == get_by_id(w, photo_id)
        photo_db == The(found)
    IN  IF found = None
        THEN [res |-> "ResourceNotFoundError", data |-> <<>>]
        ELSE IF ~photo_db.is_encrypted
        THEN [res |-> "ResourceNotFoundError", data |-> <<>>]
        ELSE IF photo_db.user_id # user_id
        THEN [res |-> "PermissionDeniedError", data |-> <<>>]
        ELSE
        LET file_path == IF is_thumbnail
                         THEN File(get_user_path(user_id, "vault/thumbnails"),
                                   <<photo_id, ".tmb.vault">>)
                         ELSE photo_db.storage_path
        IN  IF ~exists(w, file_path)
            THEN [res |-> "StorageError", data |-> <<>>]
            ELSE LET salt == fromhex(photo_db.encryption_salt)
                 IN  IF salt = None
                     THEN [res |-> "TypeError", data |-> <<>>]
                     ELSE _decrypt_data(w.disk[file_path], vault_password, The(salt))

\* ------------------------------------------------------------ concurrency
\* The steps of a call at which another session or another file operation
\* can come in between: each file operation and each database statement.

\* StorageController.update_usage, the SELECT: the row the session loads
update_usage_select(w, user_id) == w.storage[user_id]

\* StorageController.update_usage, the commit: the UPDATE writes the values
\* computed in Python from the row as it was loaded
update_usage_commit(w, user_id, storage_db, size_delta, files_delta) ==
    [w EXCEPT !.storage[user_id] =
        Some([count_files |-> storage_db.count_files + files_delta,
              storage_bytes_size |-> storage_db.storage_bytes_size + size_delta])]

Finish(task, res) == [task EXCEPT !.pc = "done", !.res = res]

\* PhotosService.upload_photo with no fault, step by step
upload_step(w, task) ==
    CASE task.pc = "save" ->
            LET prep == prepare_new_photo_path(w, task.user, "a.JPG")
                w1 == write_file(prep.w, prep.path, Plain(task.stream))
            IN  [w |-> w1,
                 task |-> [task EXCEPT !.path = prep.path,
                                       !.size = st_size(w1.disk[prep.path]),
                                       !.pc = "select"]]
      [] task.pc = "select" ->
            LET storage_db == update_usage_select(w, task.user)
            IN  IF storage_db = None
                THEN \* update_usage returns False: the file is unlinked
                     [w |-> unlink(w, task.path), task |-> Finish(task, "StorageError")]
                ELSE [w |-> w, task |-> [task EXCEPT !.row = storage_db, !.pc = "commit"]]
      [] task.pc = "commit" ->
            [w |-> update_usage_commit(w, task.user, The(task.row), task.size, 1),
             task |-> [task EXCEPT !.pc = "persist"]]
      [] task.pc = "persist" ->
            LET w1 == _generate_thumbnail(w, task.path, task.user, TRUE)
                created == create_photo(w1, task.user, "a.JPG", task.path, TRUE)
            IN  [w |-> created.w,
                 task |-> [Finish(task, "ok") EXCEPT !.id = created.id]]

purge_unlink_keeps_file(w, task) ==
    [w |-> w, task |-> [task EXCEPT !.pc = "select"]]

purge_unlink_missing_ok(w, task) ==
    [w |-> unlink(w, task.path), task |-> [task EXCEPT !.pc = "select"]]

\* StorageService.delete_photo_file, file_path.unlink(): a file that is gone
\* raises FileNotFoundError, an OSError, turned into StorageError
purge_unlink(w, task) ==
    IF task.path \notin DOMAIN w.disk
    THEN [w |-> w, task |-> Finish(task, "StorageError")]
    ELSE [w |-> unlink(w, task.path), task |-> [task EXCEPT !.pc = "select"]]

\* PhotosService.delete_photo by the owner with no fault, step by step
purge_step(w, task) ==
    CASE task.pc = "get" ->
            LET found == get_by_id(w, task.id)
            IN  IF found = None
                THEN [w |-> w, task |-> Finish(task, "ResourceNotFoundError")]
                ELSE [w |-> w,
                      task |-> [task EXCEPT !.path = The(found).storage_path,
                                            !.pc = "exists"]]
      [] task.pc = "exists" ->
            IF ~exists(w, task.path)
            THEN [w |-> w, task |-> Finish(task, "ResourceNotFoundError")]
            ELSE [w |-> w, task |-> [task EXCEPT !.pc = "stat"]]
      [] task.pc = "stat" ->
            IF task.path \notin DOMAIN w.disk
            THEN [w |-> w, task |-> Finish(task, "StorageError")]
            ELSE [w |-> w, task |-> [task EXCEPT !.size = st_size(w.disk[task.path]),
                                                 !.pc = "unlink"]]
      [] task.pc = "unlink" -> purge_unlink(w, task)
      [] task.pc = "select" ->
            LET storage_db == update_usage_select(w, task.user)
            IN  [w |-> w,
                 task |-> [task EXCEPT !.row = storage_db,
                                       !.pc = IF storage_db = None THEN "thumb" ELSE "commit"]]
      [] task.pc = "commit" ->
            [w |-> update_usage_commit(w, task.user, The(task.row), -task.size, -1),
             task |-> [task EXCEPT !.pc = "thumb"]]
      [] task.pc = "thumb" ->
            LET thumb_path == File(get_user_path(task.user, "thumbnails"), task.path[3])
            IN  [w |-> IF exists(w, thumb_path) THEN unlink(w, thumb_path) ELSE w,
                 task |-> [task EXCEPT !.pc = "row"]]
      [] task.pc = "row" ->
            LET success == delete_photo_row(w, task.id, TRUE)
            IN  [w |-> success.w, task |-> Finish(task, IF success.ok THEN "True" ELSE "False")]

\* PhotoController.trash_photo, step by step: the row is loaded, then the
\* UPDATE is committed; an UPDATE that matches no row is rolled back
trash_step(w, task, clock) ==
    CASE task.pc = "load" ->
            IF get_by_id(w, task.id) = None
            THEN [w |-> w, task |-> Finish(task, "False")]
            ELSE [w |-> w, task |-> [task EXCEPT !.pc = "update"]]
      [] task.pc = "update" ->
            LET out == trash_photo(w, task.id, clock, TRUE)
            IN  [w |-> out.w, task |-> Finish(task, out.res)]

\* ------------------------------------------------------------ registration
\* the UserCreate inputs explored: two share a username, two an email
UserDatas == {UserRow("n1", "e1", "user"), UserRow("n1", "e2", "user"),
              UserRow("n2", "e2", "admin")}

\* the faults one registration can meet: the commit of the user row, a
\* mkdir of init_user_storage, the commit of the storage row
RegisterFaults == {{}, {"user_commit"}, {"mkdir"}, {"storage_commit"}}

\* UserController.create: id is the uuid4 default of the new row; the unique
\* username and email columns make the commit fail
create(us, id, user_data, commit_ok) ==
    IF /\ commit_ok
       /\ \A u \in DOMAIN us : us[u] # None =>
              /\ The(us[u]).username # user_data.username
              /\ The(us[u]).email # user_data.email
    THEN [users |-> [us EXCEPT ![id] = Some(user_data)], res |-> Some(id)]
    ELSE [users |-> us, res |-> None]

register_user_ignores_storage(w, us, id, user_data, faults) ==
    LET new_user_db == create(us, id, user_data, "user_commit" \notin faults)
    IN  IF new_user_db.res = None
        THEN [w |-> w, users |-> us, res |-> "None"]
        ELSE [w |-> init_user_storage(w, id, "storage_commit" \notin faults).w,
              users |-> new_user_db.users, res |-> "user"]

\* UserService.register_user
register_user(w, us, id, user_data, faults) ==
    LET new_user_db == create(us, id, user_data, "user_commit" \notin faults)
    IN  IF new_user_db.res = None
        THEN [w |-> w, users |-> us, res |-> "None"]
        ELSE IF "mkdir" \in faults /\ w.storage[id] = None
        THEN \* the first mkdir raises OSError: StorageError, caught at line 92
             [w |-> w, users |-> new_user_db.users, res |-> "None"]
        ELSE LET storage_init == init_user_storage(w, id, "storage_commit" \notin faults)
             IN  [w |-> storage_init.w, users |-> new_user_db.users,
                  res |-> IF storage_init.res = "None" THEN "None" ELSE "user"]

\* ---------------------------------------------------------------- actions
\* the two requests served at the same time
Tasks == {1, 2}

\* a slot without a call in flight
Idle == [op |-> "none", pc |-> "idle", user |-> "None", id |-> NoId, stream |-> <<>>,
         path |-> <<>>, size |-> 0, row |-> None, res |-> "None",
         base |-> None, fsize |-> 0]

Init ==
    /\ storage = [u \in Users |-> None]
    /\ photos = <<>>
    /\ disk = <<>>
    /\ dirs = {}
    /\ uuid = 0
    /\ now = 0
    /\ purged = {}
    /\ locked_with = <<>>
    /\ call = [op |-> "none", user |-> "None", id |-> NoId, res |-> "None",
               password |-> "None", data |-> <<>>]
    /\ tasks = [t \in Tasks |-> Idle]
    /\ users = [u \in Users |->
                 Some(UserRow(u, u, IF u \in Admins THEN "admin" ELSE "user"))]

Called(op, user, id, res, password, data) ==
    call' = [op |-> op, user |-> user, id |-> id, res |-> res,
             password |-> password, data |-> data]

Apply(w) ==
    /\ storage' = w.storage
    /\ photos' = w.photos
    /\ disk' = w.disk
    /\ dirs' = w.dirs
    /\ uuid' = w.uuid

\* ghost bookkeeping over the rows that exist after the step
Track(w, id, entry) ==
    locked_with' = [i \in DOMAIN w.photos |->
                      IF i = id THEN entry
                      ELSE IF i \in DOMAIN locked_with THEN locked_with[i] ELSE None]

KeepTrack(w) == Track(w, NoId, None)

InitUserStorage(u, commit_ok) ==
    LET out == init_user_storage(World, u, commit_ok)
    IN  /\ Apply(out.w)
        /\ Called("init", u, NoId, out.res, "None", <<>>)
        /\ UNCHANGED <<users, tasks, now, purged, locked_with>>

\* A uuid value that a failed call drew and that is left nowhere is as good
\* as never drawn: a call that changed nothing else leaves the counter too.
Forget(w) ==
    IF [w EXCEPT !.uuid = uuid] = World THEN World ELSE w

UploadPhoto(u, file_stream, filename, faults) ==
    LET out == upload_photo(World, u, file_stream, filename, faults)
    IN  /\ out.w.uuid <= MaxUuid
        /\ Apply(Forget(out.w))
        /\ KeepTrack(out.w)
        /\ Called("upload", u, out.id, out.res, "None", <<>>)
        /\ UNCHANGED <<users, tasks, now, purged>>

\* trash_photo and restore_photo take the id alone: the requester is not read
TrashPhoto(id, requester, commit_ok) ==
    LET out == trash_photo(World, id, now, commit_ok)
    IN  /\ Apply(out.w)
        /\ Called("trash", requester, id, out.res, "None", <<>>)
        /\ UNCHANGED <<users, tasks, now, purged, locked_with>>

RestorePhoto(id, requester, commit_ok) ==
    LET out == restore_photo(World, id, commit_ok)
    IN  /\ Apply(out.w)
        /\ Called("restore", requester, id, out.res, "None", <<>>)
        /\ UNCHANGED <<users, tasks, now, purged, locked_with>>

DeletePhoto(id, requester, faults) ==
    LET out == delete_photo(World, id, requester, faults)
    IN  /\ Apply(out.w)
        /\ KeepTrack(out.w)
        /\ purged' = IF out.res = "True" THEN purged \cup {id} ELSE purged
        /\ Called("purge", requester, id, out.res, "None", <<>>)
        /\ UNCHANGED <<users, tasks, now>>

LockPhoto(id, u, password, rnd, faults) ==
    LET out == lock_photo(World, id, u, password, rnd, faults)
        found == get_by_id(World, id)
        row == The(found)
        thumb_path == File(get_user_path(u, "thumbnails"), row.storage_path[3])
        clean == /\ found # None /\ row.user_id = u /\ ~row.is_encrypted
                 /\ row.storage_path \in DOMAIN disk /\ faults = {}
    IN  /\ Apply(out.w)
        /\ IF clean
           THEN Track(out.w, id,
                      Some([password |-> password,
                            plaintext |-> disk[row.storage_path].bytes,
                            thumbnail |-> IF thumb_path \in DOMAIN disk
                                          THEN Some(disk[thumb_path].bytes)
                                          ELSE None]))
           ELSE KeepTrack(out.w)
        /\ Called("lock", u, id, out.res, password, <<>>)
        /\ UNCHANGED <<users, tasks, now, purged>>

GetDecryptedStream(id, u, password, is_thumbnail) ==
    LET out == get_decrypted_stream(World, id, u, password, is_thumbnail)
    IN  /\ Called(IF is_thumbnail THEN "unlock_thumbnail" ELSE "unlock",
                  u, id, out.res, password, out.data)
        /\ UNCHANGED <<users, storage, photos, disk, dirs, uuid, now, purged, locked_with, tasks>>

Bool(b) == IF b THEN "True" ELSE "False"

\* every ledger counter of w is within the explored range
Capped(w) ==
    \A u \in Users :
        w.storage[u] # None =>
            /\ The(w.storage[u]).count_files \in -MaxLedger..MaxLedger
            /\ The(w.storage[u]).storage_bytes_size \in -MaxLedger..MaxLedger

RegisterFileUpload(u, file_size_bytes, commit_ok) ==
    LET out == register_file_upload(World, u, file_size_bytes, commit_ok)
    IN  /\ Capped(out.w)
        /\ Apply(out.w)
        /\ Called("register_upload", u, NoId, Bool(out.ok), "None", <<>>)
        /\ UNCHANGED <<users, tasks, now, purged, locked_with>>

RegisterFileDeletion(u, file_size_bytes, commit_ok) ==
    LET out == register_file_deletion(World, u, file_size_bytes, commit_ok)
    IN  /\ Capped(out.w)
        /\ Apply(out.w)
        /\ Called("register_deletion", u, NoId, Bool(out.ok), "None", <<>>)
        /\ UNCHANGED <<users, tasks, now, purged, locked_with>>

SyncDbStatsWithDisk(u, commit_ok) ==
    LET out == sync_db_stats_with_disk(World, u, commit_ok)
    IN  /\ Capped(out.w)
        /\ Apply(out.w)
        /\ Called("reconcile", u, NoId, Bool(out.ok), "None", <<>>)
        /\ UNCHANGED <<users, tasks, now, purged, locked_with>>

\* The clock is read into deleted_at alone: its advance shows once a row
\* holds the current time.
Tick ==
    /\ now < MaxTime
    /\ \E id \in DOMAIN photos : photos[id].deleted_at = Some(now)
    /\ now' = now + 1
    /\ UNCHANGED <<users, storage, photos, disk, dirs, uuid, purged, locked_with, call, tasks>>

AllIdle == \A t \in Tasks : tasks[t] = Idle

InFlight(t, op) == tasks[t].op = op /\ tasks[t].pc \notin {"idle", "done"}

\* two uploads of one owner are received together
BeginUploads(u, s1, s2) ==
    /\ AllIdle
    /\ uuid + 4 <= MaxUuid
    /\ tasks' = [t \in Tasks |->
                   [Idle EXCEPT !.op = "upload", !.pc = "save", !.user = u,
                                !.stream = IF t = 1 THEN s1 ELSE s2,
                                !.base = storage[u]]]
    /\ Called("concurrent", u, NoId, "None", "None", <<>>)
    /\ UNCHANGED <<users, storage, photos, disk, dirs, uuid, now, purged, locked_with>>

\* a purge by the owner is received together with another purge or a trash
\* of the same id
BeginLifecycle(id, other) ==
    /\ AllIdle
    /\ id \in DOMAIN photos
    /\ LET owner == photos[id].user_id
           path == photos[id].storage_path
           start == [Idle EXCEPT !.user = owner, !.id = id, !.base = storage[owner],
                                 !.fsize = IF path \in DOMAIN disk
                                           THEN st_size(disk[path]) ELSE 0]
       IN  /\ tasks' = [t \in Tasks |->
                          IF t = 1 \/ other = "purge"
                          THEN [start EXCEPT !.op = "purge", !.pc = "get"]
                          ELSE [start EXCEPT !.op = "trash", !.pc = "load"]]
           /\ Called("concurrent", owner, id, "None", "None", <<>>)
    /\ UNCHANGED <<users, storage, photos, disk, dirs, uuid, now, purged, locked_with>>

Advance(t, out) ==
    /\ Apply(out.w)
    /\ KeepTrack(out.w)
    /\ tasks' = [tasks EXCEPT ![t] = out.task]
    /\ UNCHANGED <<users, now, purged, call>>

UploadStep(t) == InFlight(t, "upload") /\ Advance(t, upload_step(World, tasks[t]))

PurgeStep(t) == InFlight(t, "purge") /\ Advance(t, purge_step(World, tasks[t]))

TrashStep(t) == InFlight(t, "trash") /\ Advance(t, trash_step(World, tasks[t], now))

\* both calls have returned
Join ==
    /\ \A t \in Tasks : tasks[t].pc = "done"
    /\ tasks' = [t \in Tasks |-> Idle]
    /\ UNCHANGED <<users, storage, photos, disk, dirs, uuid, now, purged, locked_with, call>>

\* the ids a caller can know: those of the rows and of the purged rows
Ids == DOMAIN photos \cup purged

\* the os.urandom draws of one lock_photo call: a salt and a nonce for the
\* original, another salt and nonce for the thumbnail
Rnd == {[salt_o |-> "s1", nonce_o |-> "n1", salt_t |-> "s2", nonce_t |-> "n2"]}

\* Ingestion and lifecycle.
Next ==
    \/ \E u \in Uploaders, ok \in BOOLEAN : InitUserStorage(u, ok)
    \/ \E u \in Uploaders, s \in Streams, f \in UploadFaults : UploadPhoto(u, s, "a.JPG", f)
    \/ \E u \in Uploaders : UploadPhoto(u, Stream(1), "c.gif", {})
    \/ \E id \in Ids, u \in Users \ Admins, ok \in BOOLEAN : TrashPhoto(id, u, ok)
    \/ \E id \in Ids, u \in Users \ Admins, ok \in BOOLEAN : RestorePhoto(id, u, ok)
    \/ \E id \in Ids, u \in Users, f \in SUBSET {"ledger", "persist"} : DeletePhoto(id, u, f)
    \/ Tick

Spec == Init /\ [][Next]_vars

\* The vault over uploaded items.
\* the callers of the vault: the owner and another user
VaultUsers == {"u1", "u2"}

VaultNext ==
    \/ \E u \in Uploaders : InitUserStorage(u, TRUE)
    \/ \E u \in Uploaders, s \in Streams, f \in SUBSET {"thumb"} :
          UploadPhoto(u, s, "a.JPG", f)
    \/ \E id \in Ids, u \in VaultUsers, pw \in Passwords, rnd \in Rnd,
          f \in {{}, {"write"}, {"thumb"}} :
          LockPhoto(id, u, pw, rnd, f)
    \/ \E id \in Ids, u \in VaultUsers, pw \in Passwords, t \in BOOLEAN :
          GetDecryptedStream(id, u, pw, t)
    \/ \E id \in Ids, u \in Uploaders : DeletePhoto(id, u, {})

VaultSpec == Init /\ [][VaultNext]_vars

\* The quota ledger under direct deltas and the reconciler.
LedgerNext ==
    \/ \E u \in Uploaders, ok \in BOOLEAN : InitUserStorage(u, ok)
    \/ \E u \in Uploaders, s \in Streams : UploadPhoto(u, s, "a.JPG", {})
    \/ \E u \in Uploaders, n \in 1..MaxLen, ok \in BOOLEAN : RegisterFileUpload(u, n, ok)
    \/ \E u \in Uploaders, n \in 1..MaxLen, ok \in BOOLEAN : RegisterFileDeletion(u, n, ok)
    \/ \E u \in Uploaders, ok \in BOOLEAN : SyncDbStatsWithDisk(u, ok)
    \/ \E id \in Ids, u \in Uploaders : DeletePhoto(id, u, {})

LedgerSpec == Init /\ [][LedgerNext]_vars

\* Two calls at a time over one owner's items.
ConcNext ==
    \/ \E u \in Uploaders : AllIdle /\ InitUserStorage(u, TRUE)
    \/ \E u \in Uploaders, s \in Streams : AllIdle /\ UploadPhoto(u, s, "a.JPG", {})
    \/ \E u \in Uploaders, s1, s2 \in Streams : BeginUploads(u, s1, s2)
    \/ \E id \in Ids, other \in {"purge", "trash"} : BeginLifecycle(id, other)
    \/ \E t \in Tasks : UploadStep(t)
    \/ \E t \in Tasks : PurgeStep(t)
    \/ \E t \in Tasks : TrashStep(t)
    \/ Join

ConcSpec == Init /\ [][ConcNext]_vars

\* -------------------------------------------------- registration of users
RegInit ==
    /\ storage = [u \in Users |-> None]
    /\ photos = <<>>
    /\ disk = <<>>
    /\ dirs = {}
    /\ uuid = 0
    /\ now = 0
    /\ purged = {}
    /\ locked_with = <<>>
    /\ call = [op |-> "none", user |-> "None", id |-> NoId, res |-> "None",
               password |-> "None", data |-> <<>>]
    /\ tasks = [t \in Tasks |-> Idle]
    /\ users = [u \in Users |-> None]

\* id is the fresh uuid4 of the new row: no user and no storage row has it
RegisterUser(id, user_data, faults) ==
    /\ users[id] = None /\ storage[id] = None
    /\ LET out == register_user(World, users, id, user_data, faults)
       IN  /\ Apply(out.w)
           /\ users' = out.users
           /\ Called("register", id, NoId, out.res, "None", <<>>)
    /\ UNCHANGED <<tasks, now, purged, locked_with>>

RegNext ==
    \/ \E id \in Users, d \in UserDatas, f \in RegisterFaults : RegisterUser(id, d, f)
    \/ \E u \in Users : users[u] # None /\ UploadPhoto(u, Stream(1), "a.JPG", {})

RegSpec == RegInit /\ [][RegNext]_vars

\* ------------------------------------------------------------ properties
\* the step is a call of op (the advance of the clock leaves call alone)
Did(op) == call'.op = op /\ now' = now

\* the state after the step
WorldAfter == [storage |-> storage', photos |-> photos', disk |-> disk',
               dirs |-> dirs', uuid |-> uuid']

count_files(w, u)        == The(w.storage[u]).count_files
storage_bytes_size(w, u) == The(w.storage[u]).storage_bytes_size

RecordsOf(w, u) == {i \in DOMAIN w.photos : w.photos[i].user_id = u}

FileSize(w, path) == IF path \in DOMAIN w.disk THEN st_size(w.disk[path]) ELSE 0

RECURSIVE SumSizes(_, _)
SumSizes(w, ids) ==
    IF ids = {} THEN 0
    ELSE LET i == CHOOSE x \in ids : TRUE
         IN  FileSize(w, w.photos[i].storage_path) + SumSizes(w, ids \ {i})

\* the ledger of u counts u's records and the bytes of the files they reference
LedgerMatchesRecords(w, u) ==
    /\ w.storage[u] # None
    /\ count_files(w, u) = Cardinality(RecordsOf(w, u))
    /\ storage_bytes_size(w, u) = SumSizes(w, RecordsOf(w, u))

\* the last call was an upload that failed after the disk write began
UploadFailed == call.op = "upload" /\ call.res \in {"OctopusError", "StorageError"}

ThumbOf(w, id) ==
    File(get_user_path(w.photos[id].user_id, "thumbnails"), w.photos[id].storage_path[3])

\* C1: every upload that succeeds for an owner whose storage record exists
\* moves the owner's ledger by exactly the size of the file written and by
\* exactly one file.
C1_IngestMovesLedger ==
    [][(Did("upload") /\ call'.res = "ok" /\ storage[call'.user] # None) =>
         LET u == call'.user
             path == photos'[call'.id].storage_path
         IN  /\ storage_bytes_size(WorldAfter, u) =
                    storage_bytes_size(World, u) + st_size(disk'[path])
             /\ count_files(WorldAfter, u) = count_files(World, u) + 1]_vars

C1_Witness ==
    /\ call.op = "upload" /\ call.res = "ok"
    /\ Cardinality(RecordsOf(World, call.user)) = 2
    /\ count_files(World, call.user) = 2

\* C2: when the owner's ledger matches the owner's records before an upload,
\* it matches them after the upload has returned, whatever step failed.
C2_IngestKeepsLedgerConsistent ==
    [][(Did("upload") /\ LedgerMatchesRecords(World, call'.user)) =>
         LedgerMatchesRecords(WorldAfter, call'.user)]_vars

\* C3: after a failed upload no file of the owner's photos directory is
\* without a record whose storage path names it.
C3_NoUnreferencedFile ==
    UploadFailed =>
        \A p \in DOMAIN disk :
            (p[1] = call.user /\ p[2] = "photos") =>
                \E i \in DOMAIN photos : photos[i].storage_path = p

C3_Witness ==
    /\ UploadFailed
    /\ uuid > 0
    /\ \E i \in DOMAIN photos :
          /\ photos[i].user_id = call.user
          /\ photos[i].storage_path \in DOMAIN disk

\* C4: after a failed upload no thumbnail of the owner's thumbnails directory
\* is without a record of the same physical name.
C4_NoUnreferencedThumbnail ==
    UploadFailed =>
        \A p \in DOMAIN disk :
            (p[1] = call.user /\ p[2] = "thumbnails") =>
                \E i \in DOMAIN photos : ThumbOf(World, i) = p

\* C5: a purge by the owner that returns success has removed the file, its
\* thumbnail and the record, and has moved the owner's ledger by -1 file and
\* by minus the size of the file.
C5_PurgeRemovesAndDecrements ==
    [][(/\ Did("purge") /\ call'.res = "True"
        /\ call'.id \in DOMAIN photos
        /\ photos[call'.id].user_id = call'.user) =>
         LET u == call'.user
             path == photos[call'.id].storage_path
         IN  /\ path \notin DOMAIN disk'
             /\ ThumbOf(World, call'.id) \notin DOMAIN disk'
             /\ call'.id \notin DOMAIN photos'
             /\ count_files(WorldAfter, u) = count_files(World, u) - 1
             /\ storage_bytes_size(WorldAfter, u) =
                    storage_bytes_size(World, u) - FileSize(World, path)]_vars

\* C6: once a purge of an id has succeeded, every later purge of that id
\* fails with ResourceNotFoundError and changes no ledger, record or file.
C6_PurgeIsTerminal ==
    [][(Did("purge") /\ call'.id \in purged) =>
         /\ call'.res = "ResourceNotFoundError"
         /\ UNCHANGED <<storage, photos, disk, dirs>>]_vars

C6_Witness ==
    /\ call.op = "purge" /\ call.res = "ResourceNotFoundError"
    /\ call.id \in purged

\* C7: a trash and a restore change no ledger and no file or directory, and
\* leave every record in place with its storage path.
C7_TrashRestoreFrame ==
    [][(Did("trash") \/ Did("restore")) =>
         /\ UNCHANGED <<storage, disk, dirs>>
         /\ DOMAIN photos' = DOMAIN photos
         /\ \A i \in DOMAIN photos :
               photos'[i].storage_path = photos[i].storage_path]_vars

\* a restore that succeeded on the only row there ever was, after the clock
\* moved past the deleted_at a trash had given it
C7_Witness ==
    /\ call.op = "restore" /\ call.res = "True"
    /\ DOMAIN photos = {call.id} /\ uuid = 2 /\ purged = {}
    /\ now > 0
    /\ ~photos[call.id].is_deleted
    /\ photos[call.id].storage_path \in DOMAIN disk

\* the owner's last lock of the row of the last call, if there was one
LastLock == IF call.id \in DOMAIN locked_with THEN locked_with[call.id] ELSE None

\* the last call was an unlock_stream of the original by the owner of an item
\* the owner had locked
OwnerUnlock ==
    /\ call.op = "unlock"
    /\ LastLock # None
    /\ call.user = photos[call.id].user_id

VaultPhotoPath(w, id) ==
    File(get_user_path(w.photos[id].user_id, "vault/photos"), <<id, ".vault">>)

\* the record is flagged encrypted with a salt and its path is a written blob
PointsAtWrittenBlob(w, id) ==
    /\ w.photos[id].is_encrypted
    /\ w.photos[id].encryption_salt # None
    /\ w.photos[id].storage_path \in DOMAIN w.disk
    /\ w.disk[w.photos[id].storage_path].kind = "blob"

\* C8: after the owner locked a plain item with a passphrase, unlock_stream by
\* the owner with that passphrase succeeds and returns the bytes that were
\* stored at the item's path before the lock.
C8_LockThenUnlockReturnsPlaintext ==
    (OwnerUnlock /\ call.password = The(LastLock).password) =>
        /\ call.res = "ok"
        /\ call.data = The(LastLock).plaintext

\* C9: after the owner locked an item, unlock_stream by the owner with another
\* passphrase fails with PermissionDeniedError.
C9_WrongPassphraseDenied ==
    (OwnerUnlock /\ call.password # The(LastLock).password) =>
        call.res = "PermissionDeniedError"

\* C10: a lock removes the plaintext of a record only when it leaves the record
\* pointing at a written vault blob.
C10_PlaintextOutlivesLock ==
    [][Did("lock") =>
         \A id \in DOMAIN photos :
            (/\ ~photos[id].is_encrypted
             /\ photos[id].storage_path \in DOMAIN disk
             /\ photos[id].storage_path \notin DOMAIN disk') =>
                (id \in DOMAIN photos' /\ PointsAtWrittenBlob(WorldAfter, id))]_vars

\* a lock that failed past the write of the blob, the plaintext still in place
C10_Witness ==
    /\ call.op = "lock" /\ call.res = "StorageError"
    /\ call.id \in DOMAIN photos
    /\ VaultPhotoPath(World, call.id) \in DOMAIN disk
    /\ ~photos[call.id].is_encrypted
    /\ photos[call.id].storage_path \in DOMAIN disk
    /\ disk[photos[call.id].storage_path].kind = "plain"

\* both counters of every ledger row are at least zero
NonNegative(w) ==
    \A u \in Users :
        w.storage[u] # None => (count_files(w, u) >= 0 /\ storage_bytes_size(w, u) >= 0)

\* C11: no ledger counter is ever negative, and a deletion delta that would
\* make one negative is rejected and leaves both counters as they were.
C11_LedgerNeverNegative ==
    /\ NonNegative(World)
    /\ \A u \in Users, n \in 0..MaxLen :
          (/\ storage[u] # None
           /\ (count_files(World, u) - 1 < 0 \/ storage_bytes_size(World, u) - n < 0)) =>
              LET out == register_file_deletion(World, u, n, TRUE)
              IN  ~out.ok /\ out.w = World

\* C12: a reconcile that directly follows a reconcile of the same owner
\* changes no ledger counter.
C12_ReconcileIdempotent ==
    [][(/\ Did("reconcile")
        /\ call.op = "reconcile" /\ call.res = "True"
        /\ call.user = call'.user) =>
         storage' = storage]_vars

\* the files of u's photos directory with an allowed extension
AllowedFiles(w, u) ==
    {p \in DOMAIN w.disk : p[1] = u /\ p[2] = "photos" /\ p[3][2] \in AllowedSuffixes}

\* C13: after a reconcile has returned, the owner's ledger holds the number
\* and the total size of the allowed files of the owner's photos directory.
C13_ReconcileOverwrites ==
    [][(Did("reconcile") /\ call'.res = "True") =>
         LET u == call'.user
         IN  /\ count_files(WorldAfter, u) = Cardinality(AllowedFiles(WorldAfter, u))
             /\ storage_bytes_size(WorldAfter, u) =
                    SumFileSizes(WorldAfter, AllowedFiles(WorldAfter, u))]_vars

\* C14: when two uploads of one owner served at the same time have both
\* succeeded, the owner's ledger has grown by two files and by the sizes of
\* both files.
C14_NoLostLedgerUpdate ==
    (/\ \A t \in Tasks :
           tasks[t].op = "upload" /\ tasks[t].pc = "done" /\ tasks[t].res = "ok"
     /\ tasks[1].base # None) =>
        LET u == tasks[1].user
            base == The(tasks[1].base)
        IN  /\ count_files(World, u) = base.count_files + 2
            /\ storage_bytes_size(World, u) =
                   base.storage_bytes_size + tasks[1].size + tasks[2].size

\* C15: while and after a purge is served together with another purge or a
\* trash of the same id, the owner's ledger is at most one file and at most
\* the size of the item's file below what it was when they began.
C15_AtMostOneDecrement ==
    (tasks[1].op = "purge" /\ tasks[1].base # None) =>
        LET u == tasks[1].user
            base == The(tasks[1].base)
        IN  /\ count_files(World, u) >= base.count_files - 1
            /\ storage_bytes_size(World, u) >= base.storage_bytes_size - tasks[1].fsize

\* two purges of one id have returned: one removed the file and the row, the
\* other had seen the file and failed at its own stat or unlink
C15_Witness ==
    /\ \A t \in Tasks : tasks[t].op = "purge" /\ tasks[t].pc = "done"
    /\ tasks[1].res = "True" /\ tasks[2].res = "StorageError"
    /\ tasks[1].base # None
    /\ count_files(World, tasks[1].user) = The(tasks[1].base).count_files - 1
    /\ tasks[1].id \notin DOMAIN photos

\* C16: every record that exists has a storage path naming a file on disk.
C16_RecordsPointAtFiles ==
    \A id \in DOMAIN photos : photos[id].storage_path \in DOMAIN disk

\* C18: a trash, restore, purge or lock of an item by a requester who is
\* neither its owner nor an administrator fails with PermissionDeniedError
\* and changes no record, file or ledger.
C18_StrangersAreDenied ==
    [][(/\ now' = now
        /\ call'.op \in {"trash", "restore", "purge", "lock"}
        /\ call'.id \in DOMAIN photos
        /\ call'.user # photos[call'.id].user_id
        /\ ~_is_user_admin(call'.user)) =>
         /\ call'.res = "PermissionDeniedError"
         /\ UNCHANGED <<storage, photos, disk, dirs>>]_vars

\* C19: in every state, an upload of a file whose lowered extension is not
\* jpg, jpeg, png or webp raises ValidationError and creates no file, no
\* directory and no record and leaves the ledger, whatever faults lie ahead.
C19_UnsupportedFormatRejected ==
    \A u \in Users, s \in Streams, f \in Filenames, flt \in UploadFaults :
        Suffix(f) \notin {".jpg", ".jpeg", ".png", ".webp"} =>
            LET out == upload_photo(World, u, s, f, flt)
            IN  out.res = "ValidationError" /\ out.w = World

\* an upload of a .gif was refused while the owner has a record and its file
C19_Witness ==
    /\ call.op = "upload" /\ call.res = "ValidationError"
    /\ \E id \in DOMAIN photos :
          photos[id].user_id = call.user /\ photos[id].storage_path \in DOMAIN disk

\* C20: an initialize for an owner without a storage record that commits
\* leaves a record with file count 0 and byte total 0, and an initialize for
\* an owner that already has a record fails with AlreadyExists.
C20_InitializeOnce ==
    [][Did("init") =>
        IF storage[call'.user] = None
        THEN call'.res = "created" =>
                storage'[call'.user] = Some([count_files |-> 0, storage_bytes_size |-> 0])
        ELSE call'.res = "AlreadyExists"]_vars

\* C21: a register_user that returns the user record leaves that user with
\* a storage record whose file count and byte total are 0.
C21_RegisteredUserHasStorage ==
    [][(Did("register") /\ call'.res = "user") =>
          /\ users'[call'.user] # None
          /\ storage'[call'.user] = Some([count_files |-> 0, storage_bytes_size |-> 0])]_vars

\* a registration returned its user while another user's ledger is not zero
C21_Witness ==
    /\ call.op = "register" /\ call.res = "user"
    /\ storage[call.user] # None
    /\ \E u \in Users \ {call.user} : storage[u] # None /\ count_files(World, u) > 0

\* C22: whenever a step removes a media record, the file at that record's
\* storage path is not on disk after the step, also while another purge of
\* the same item fails at its physical deletion.
C22_RecordRemovedAfterFile ==
    [][\A id \in DOMAIN photos \ DOMAIN photos' :
          photos[id].storage_path \notin DOMAIN disk']_vars

\* one purge removed the file and then the record, the other purge of the
\* same item failed at the physical deletion
C22_Witness ==
    \E t1, t2 \in Tasks :
        /\ tasks[t1].op = "purge" /\ tasks[t1].res = "True"
        /\ tasks[t1].id \notin DOMAIN photos
        /\ tasks[t1].path \notin DOMAIN disk
        /\ tasks[t2].op = "purge"
        /\ tasks[t2].res \in {"StorageError", "ResourceNotFoundError"}

\* C23: in every state where the owner has a storage record, an upload whose
\* metadata extraction yields nothing succeeds: its record is created, its
\* file is on disk and the ledger counts one more file and the file's bytes.
C23_MissingMetadataNotFatal ==
    \A u \in Uploaders, s \in Streams :
        storage[u] # None =>
            LET out == upload_photo(World, u, s, "a.JPG", {"meta"})
            IN  /\ out.res = "ok"
                /\ out.id \in DOMAIN out.w.photos
                /\ out.w.photos[out.id].storage_path \in DOMAIN out.w.disk
                /\ count_files(out.w, u) = count_files(World, u) + 1
                /\ storage_bytes_size(out.w, u) = storage_bytes_size(World, u) + Len(s)

\* C24: after the owner locked a plain item that had a thumbnail,
\* unlock_stream of the thumbnail by the owner with the passphrase of that
\* lock succeeds and returns the bytes the thumbnail had before the lock.
C24_ThumbnailUnlocks ==
    (/\ call.op = "unlock_thumbnail"
     /\ LastLock # None
     /\ call.user = photos[call.id].user_id
     /\ The(LastLock).thumbnail # None
     /\ call.password = The(LastLock).password) =>
        /\ call.res = "ok"
        /\ call.data = The(The(LastLock).thumbnail)

\* C25: in every state, a purge by the owner that deletes the file and whose
\* ledger decrement then fails does not report success: a purge that returns
\* True has taken the file out of the ledger.
C25_LedgerFailureNotSwallowed ==
    \A id \in DOMAIN photos :
        LET u == photos[id].user_id
            path == photos[id].storage_path
            out == delete_photo(World, id, u, {"ledger"})
        IN  (path \in DOMAIN disk /\ storage[u] # None /\ out.res = "True") =>
                /\ count_files(out.w, u) = count_files(World, u) - 1
                /\ storage_bytes_size(out.w, u) =
                       storage_bytes_size(World, u) - FileSize(World, path)

\* C26: in every state, a trash of an item that is already trashed, with its
\* commit going through, returns success and leaves the record as it was,
\* soft-delete flag and deleted-at timestamp included.
C26_TrashOfTrashedIsNoOp ==
    \A id \in DOMAIN photos :
        photos[id].is_deleted =>
            LET out == trash_photo(World, id, now, TRUE)
            IN  /\ out.res = "True"
                /\ out.w.photos[id] = photos[id]

\* the owner has locked the row before this step
LockedBefore(id) == id \in DOMAIN locked_with /\ locked_with[id] # None

C29_FailedLockChangesNothing ==
    [][(Did("lock") /\ call'.res = "StorageError" /\ call'.id \in DOMAIN photos) =>
         LET id == call'.id
             path == photos[id].storage_path
         IN  /\ id \in DOMAIN photos'
             /\ photos'[id].storage_path = path
             /\ photos'[id].is_encrypted = photos[id].is_encrypted
             /\ photos'[id].encryption_salt = photos[id].encryption_salt
             /\ path \in DOMAIN disk =>
                   (path \in DOMAIN disk' /\ disk'[path] = disk[path])]_vars

\* a lock failed at the update of the record, past the write of both blobs
C29_Witness ==
    /\ call.op = "lock" /\ call.res = "StorageError"
    /\ call.id \in DOMAIN photos
    /\ VaultPhotoPath(World, call.id) \in DOMAIN disk
    /\ File(get_user_path(call.user, "vault/thumbnails"), <<call.id, ".tmb.vault">>)
           \in DOMAIN disk
    /\ ~photos[call.id].is_encrypted /\ photos[call.id].encryption_salt = None
    /\ photos[call.id].storage_path \in DOMAIN disk

\* the files of the owner's vault directories named by a media id
VaultFilesOf(w, user_id, id) ==
    {p \in DOMAIN w.disk :
        /\ p[1] = user_id
        /\ p[2] \in {"vault/photos", "vault/thumbnails"}
        /\ p[3][1] = id}

\* C30: after a successful purge of an item its owner has locked, no file
\* named by that media id is left in the owner's vault/photos or
\* vault/thumbnails directory.
C30_PurgeRemovesVaultBlobs ==
    [][(/\ Did("purge") /\ call'.res = "True"
        /\ LockedBefore(call'.id)) =>
         VaultFilesOf(WorldAfter, photos[call'.id].user_id, call'.id) = {}]_vars

====
